---- MODULE Spec2Model ----
(***************************************************************************)
(* A model of assistant_bot.py: the address book (Field, Phone, Birthday,  *)
(* Record, AddressBook), the command handlers wrapped by input_error, and  *)
(* the command loop of main().                                             *)
(*                                                                         *)
(* Strings are sequences of one-character strings, so that len(), split(), *)
(* lower(), isdigit(), join() and strptime() are computed on characters.   *)
(* A literal of the program (a message) is kept as one element, e.g.       *)
(* <<"Contact added.">>: no operation of the program looks inside one.     *)
(***************************************************************************)
EXTENDS Integers, Sequences, FiniteSets, TLC

\* ------------------------------------------------------------------ bounds

\* The longest argument list typed after a command.
MaxArgs == 3

\* ----------------------------------------------------------------- strings

Digits == {"0", "1", "2", "3", "4", "5", "6", "7", "8", "9"}

DigitSeq == <<"0", "1", "2", "3", "4", "5", "6", "7", "8", "9">>

UpperSeq == <<"A", "B", "C", "D", "E", "F", "G", "H", "I", "J", "K", "L", "M",
              "N", "O", "P", "Q", "R", "S", "T", "U", "V", "W", "X", "Y", "Z">>

LowerSeq == <<"a", "b", "c", "d", "e", "f", "g", "h", "i", "j", "k", "l", "m",
              "n", "o", "p", "q", "r", "s", "t", "u", "v", "w", "x", "y", "z">>

Whitespace == {" ", "\t"}

\* str.isdigit(): non-empty and every character a digit.
isdigit(s) == Len(s) > 0 /\ \A i \in 1..Len(s) : s[i] \in Digits

DigitVal(c) == (CHOOSE i \in 1..Len(DigitSeq) : DigitSeq[i] = c) - 1

\* int() of a string of digits.
RECURSIVE Num(_)
Num(s) == IF s = <<>> THEN 0
          ELSE Num(SubSeq(s, 1, Len(s) - 1)) * 10 + DigitVal(s[Len(s)])

\* The decimal digits of n, zero-padded to `width` characters (%04d, %02d).
RECURSIVE Pad(_, _)
Pad(n, width) == IF width = 0 THEN <<>>
                 ELSE Pad(n \div 10, width - 1) \o <<DigitSeq[(n % 10) + 1]>>

LowerChar(c) == IF \E i \in 1..Len(UpperSeq) : UpperSeq[i] = c
                THEN LowerSeq[CHOOSE i \in 1..Len(UpperSeq) : UpperSeq[i] = c]
                ELSE c

\* str.lower()
lower(s) == [i \in 1..Len(s) |-> LowerChar(s[i])]

\* str.strip(): leading and trailing whitespace removed.
RECURSIVE strip(_)
strip(s) == IF s = <<>> THEN s
            ELSE IF s[1] \in Whitespace THEN strip(Tail(s))
            ELSE IF s[Len(s)] \in Whitespace THEN strip(SubSeq(s, 1, Len(s) - 1))
            ELSE s

\* str.split(): the maximal runs of non-whitespace characters, in order.
\* `cur` is the run being read, `acc` the runs already closed.
RECURSIVE SplitFrom(_, _, _)
SplitFrom(s, cur, acc) ==
    IF s = <<>> THEN (IF cur = <<>> THEN acc ELSE Append(acc, cur))
    ELSE IF s[1] \in Whitespace
         THEN SplitFrom(Tail(s), <<>>, IF cur = <<>> THEN acc ELSE Append(acc, cur))
         ELSE SplitFrom(Tail(s), Append(cur, s[1]), acc)

split(s) == SplitFrom(s, <<>>, <<>>)

\* sep.join(parts)
RECURSIVE join(_, _)
join(sep, parts) ==
    IF parts = <<>> THEN <<>>
    ELSE IF Len(parts) = 1 THEN parts[1]
    ELSE parts[1] \o sep \o join(sep, Tail(parts))

\* --------------------------------------------------------------- outcomes

\* What a call produces: a returned value (exc = "") or a raised exception.
Return(v) == [exc |-> "", msg |-> "", val |-> v]

Raise(e, m) == [exc |-> e, msg |-> m, val |-> <<>>]

\* Exception propagation: a call that raised ends the caller with the same
\* exception, otherwise the caller goes on with the value returned.
Try(outcome, Then(_)) == IF outcome.exc # "" THEN outcome ELSE Then(outcome.val)

\* ------------------------------------------------------------------ dates

\* datetime values are records [year, month, day]; None is the absent birthday.
None == [year |-> 0, month |-> 0, day |-> 0]

Date(y, m, d) == [year |-> y, month |-> m, day |-> d]

IsLeap(y) == (y % 4 = 0) /\ ((y % 100 # 0) \/ (y % 400 = 0))

DaysInMonth(y, m) ==
    IF m = 2 THEN (IF IsLeap(y) THEN 29 ELSE 28)
    ELSE IF m \in {4, 6, 9, 11} THEN 30 ELSE 31

RECURSIVE DaysBeforeMonth(_, _)
DaysBeforeMonth(y, m) ==
    IF m = 1 THEN 0 ELSE DaysBeforeMonth(y, m - 1) + DaysInMonth(y, m - 1)

DaysBeforeYear(y) ==
    (y - 1) * 365 + ((y - 1) \div 4) - ((y - 1) \div 100) + ((y - 1) \div 400)

\* date.toordinal(): 0001-01-01 is day 1.
toordinal(d) == DaysBeforeYear(d.year) + DaysBeforeMonth(d.year, d.month) + d.day

\* date.weekday(): Monday is 0, Sunday is 6.
weekday(d) == (toordinal(d) + 6) % 7

DayNames == <<"Monday", "Tuesday", "Wednesday", "Thursday", "Friday",
              "Saturday", "Sunday">>

\* date.strftime('%A')
strftime_A(d) == DayNames[weekday(d) + 1]

\* date.replace(year=y): raises ValueError for 29 February in a non-leap year.
replace_year(d, y) ==
    IF d.day > DaysInMonth(y, d.month)
    THEN Raise("ValueError", "day is out of range for month")
    ELSE Return(Date(y, d.month, d.day))

\* str(datetime): "YYYY-MM-DD 00:00:00"
str_datetime(d) ==
    Pad(d.year, 4) \o <<"-">> \o Pad(d.month, 2) \o <<"-">> \o Pad(d.day, 2)
        \o <<" 00:00:00">>

\* datetime.strptime(s, '%d.%m.%Y'): one or two digits of day (1..31), ".",
\* one or two digits of month (1..12), ".", four digits of year (>= 1), and
\* the day must exist in that month; anything else raises ValueError.
strptime(s) ==
    LET dots == {i \in 1..Len(s) : s[i] = "."}
    IN  IF Cardinality(dots) # 2
        THEN Raise("ValueError", "does not match format")
        ELSE
        LET i  == CHOOSE k \in dots : \A l \in dots : k <= l
            j  == CHOOSE k \in dots : \A l \in dots : k >= l
            dd == SubSeq(s, 1, i - 1)
            mm == SubSeq(s, i + 1, j - 1)
            yy == SubSeq(s, j + 1, Len(s))
        IN  IF /\ isdigit(dd) /\ Len(dd) \in 1..2 /\ Num(dd) \in 1..31
               /\ isdigit(mm) /\ Len(mm) \in 1..2 /\ Num(mm) \in 1..12
               /\ isdigit(yy) /\ Len(yy) = 4
            THEN IF Num(yy) >= 1 /\ Num(dd) <= DaysInMonth(Num(yy), Num(mm))
                 THEN Return(Date(Num(yy), Num(mm), Num(dd)))
                 ELSE Raise("ValueError", "day is out of range for month")
            ELSE Raise("ValueError", "does not match format")

\* ----------------------------------------------------------------- fields

\* Phone.__init__: the value is kept iff it has 10 characters, all digits.
Phone(phone) ==
    IF ~(Len(phone) = 10 /\ isdigit(phone))
    THEN Raise("ValueError", "Phone number must be 10 digits long")
    ELSE Return(phone)

\* Birthday.__init__: the parsed datetime; any ValueError of strptime is
\* raised again with the message of line 21.
Reraise(date) ==
    IF date.exc = "ValueError"
    THEN Raise("ValueError", "Date of birth must be in DD.MM.YYYY format")
    ELSE date

Birthday(birthday) == Reraise(strptime(birthday))

\* Name.__init__: any string.
Name(name) == name

\* ----------------------------------------------------------------- Record

\* Record.__init__ with birthday=None: a name, no birthday, no phones.
Record(name) == [name |-> Name(name), birthday |-> None, phones |-> <<>>]

\* Record.add_phone: val is the record with the validated phone appended.
add_phone(record, phone_number) ==
    Try(Phone(phone_number),
        LAMBDA phone : Return([record EXCEPT !.phones = Append(@, phone)]))

\* Record.find_phone: the index of the first phone equal to phone_number,
\* 0 for None.
find_phone(record, phone_number) ==
    IF \E i \in 1..Len(record.phones) : record.phones[i] = phone_number
    THEN CHOOSE i \in 1..Len(record.phones) :
            /\ record.phones[i] = phone_number
            /\ \A k \in 1..(i - 1) : record.phones[k] # phone_number
    ELSE 0

\* edit_phone with `phone = new_number` for `phone.value = new_number`: the
\* local name is rebound and the stored phone stays (the variant C7 rules out).
edit_phone_rebind(record, old_number, new_number) ==
    [found |-> find_phone(record, old_number) # 0, record |-> record]

\* Record.edit_phone: the found phone's value is assigned new_number as it is
\* (Phone.__init__ does not run); found tells the returned True from False.
edit_phone(record, old_number, new_number) ==
    LET phone == find_phone(record, old_number)
    IN  IF phone # 0
        THEN [found |-> TRUE,
              record |-> [record EXCEPT !.phones[phone] = new_number]]
        ELSE [found |-> FALSE, record |-> record]

\* Record.add_birthday: val is the record with the validated birthday.
Record_add_birthday(record, birthday) ==
    Try(Birthday(birthday),
        LAMBDA date : Return([record EXCEPT !.birthday = date]))

\* ------------------------------------------------------------ AddressBook

\* AddressBook.data is a dict: a sequence of entries [key, record] in
\* insertion order, with no key twice.
Keys(data) == {data[i].key : i \in 1..Len(data)}

IndexOf(data, key) == CHOOSE i \in 1..Len(data) : data[i].key = key

\* A list of entries in place of the dict: every assignment appends (the
\* variant C8 rules out).
SetItem_append(data, key, record) ==
    Append(data, [key |-> key, record |-> record])

\* dict.__setitem__: an existing key keeps its place, a new key goes last.
SetItem(data, key, record) ==
    IF key \in Keys(data)
    THEN [data EXCEPT ![IndexOf(data, key)] = [key |-> key, record |-> record]]
    ELSE Append(data, [key |-> key, record |-> record])

\* AddressBook.add_record
add_record(data, record) == SetItem(data, record.name, record)

\* The None that dict.get returns for an absent key (no record has an empty
\* name: a name is a word of the line).
NoRecord == [name |-> <<>>, birthday |-> None, phones |-> <<>>]

\* AddressBook.find
find(data, name) ==
    IF name \in Keys(data) THEN data[IndexOf(data, name)].record ELSE NoRecord

\* AddressBook.delete
delete(data, name) ==
    IF name \in Keys(data)
    THEN SubSeq(data, 1, IndexOf(data, name) - 1)
            \o SubSeq(data, IndexOf(data, name) + 1, Len(data))
    ELSE data

\* birthday_dict[day_of_week].append(name) on a defaultdict(list): a sequence
\* of [day, names] in the order the days were first used.
DictAppend(birthday_dict, day, name) ==
    IF \E i \in 1..Len(birthday_dict) : birthday_dict[i].day = day
    THEN LET i == CHOOSE k \in 1..Len(birthday_dict) : birthday_dict[k].day = day
         IN  [birthday_dict EXCEPT ![i].names = Append(@, name)]
    ELSE Append(birthday_dict, [day |-> day, names |-> <<name>>])

\* The window one day longer (the variant C5 rules out).
InWindow_wide(delta_days) == delta_days <= 6 /\ delta_days > -2

\* The condition of line 99 on delta_days = (birthday_this_year - end).days.
InWindow(delta_days) == delta_days <= 5 /\ delta_days > -2

\* Only Saturday moved to Monday (the variant C6 rules out).
Remap_saturday(day_of_week) ==
    IF day_of_week = "Saturday" THEN "Monday" ELSE day_of_week

\* Lines 100-102: the weekday name, Saturday and Sunday moved to Monday.
Remap(day_of_week) ==
    IF day_of_week = "Saturday" \/ day_of_week = "Sunday"
    THEN "Monday" ELSE day_of_week

BucketOf(birthday_this_year) == Remap(strftime_A(birthday_this_year))

\* The loop of lines 95-103 from entry i on; `end` is the ordinal of the
\* Sunday of today's week. A record without birthday has birthday None, and
\* None.value raises AttributeError.
RECURSIVE PerWeekFrom(_, _, _, _, _)
PerWeekFrom(data, i, today, end, birthday_dict) ==
    IF i > Len(data) THEN Return(birthday_dict)
    ELSE IF data[i].record.birthday = None
    THEN Raise("AttributeError", "'NoneType' object has no attribute 'value'")
    ELSE Try(replace_year(data[i].record.birthday, today.year),
             LAMBDA birthday_this_year :
                PerWeekFrom(data, i + 1, today, end,
                    IF InWindow(toordinal(birthday_this_year) - end)
                    THEN DictAppend(birthday_dict, BucketOf(birthday_this_year),
                                    data[i].key)
                    ELSE birthday_dict))

\* AddressBook.get_birthdays_per_week, with datetime.today().date() = today.
get_birthdays_per_week(data, today) ==
    LET start == toordinal(today) - weekday(today)
        end   == start + 6
    IN  PerWeekFrom(data, 1, today, end, <<>>)

\* --------------------------------------------------------------- handlers

\* The handlers return display strings; val of a handler's outcome is that
\* string and book the address book the call leaves behind.
InBook(outcome, data) ==
    [exc |-> outcome.exc, msg |-> outcome.msg, val |-> outcome.val, book |-> data]

\* Exception propagation out of a handler that has left the book as `data`.
TryIn(outcome, data, Then(_)) ==
    IF outcome.exc # "" THEN InBook(outcome, data) ELSE Then(outcome.val)

\* `a, b = args` and `[a] = args`: ValueError unless args has n elements.
Unpack(args, n) ==
    IF Len(args) < n THEN Raise("ValueError", "not enough values to unpack")
    ELSE IF Len(args) > n THEN Raise("ValueError", "too many values to unpack")
    ELSE Return(args)

VErrorPhone == "The phone number must consist of 10 digits"

VErrorBirthday == "Date of birth must be in DD.MM.YYYY format"

\* `a in b` for the messages above: of the messages the program raises only
\* the empty one or b itself is a substring of b.
StrIn(a, b) == a = "" \/ a = b

\* bool() of a string
Truthy(str) == str # ""

\* input_error.inner applied to what func did: KeyError, ValueError and
\* IndexError become messages, any other exception goes on to the caller.
\* Line 119 reads (str(VError) in VErrorPhone) or VErrorBirthday; were it
\* false, inner would return None.
input_error(r) ==
    IF r.exc = "" THEN r
    ELSE IF r.exc = "KeyError"
         THEN InBook(Return(<<"Can't find the contact.">>), r.book)
    ELSE IF r.exc = "ValueError"
         THEN IF StrIn(r.msg, VErrorPhone) \/ Truthy(VErrorBirthday)
              THEN InBook(Return(<<"Give the correct data, please">>), r.book)
              ELSE InBook(Return(<<"None">>), r.book)
    ELSE IF r.exc = "IndexError"
         THEN InBook(Return(<<"No arguments.">>), r.book)
    ELSE r

\* add_contact with add_record called before add_phone: a phone that fails
\* validation leaves the new record, without phone, in the book (the variant
\* C4 rules out).
add_contact_func_early(args, book) ==
    LET Body(name, phone) ==
            TryIn(add_phone(Record(name), phone), add_record(book, Record(name)),
                  LAMBDA record :
                     InBook(Return(<<"Contact added.">>), add_record(book, record)))
    IN  TryIn(Unpack(args, 2), book, LAMBDA a : Body(a[1], a[2]))

\* add_contact that adds the phone to the record the book already holds
\* under the name (the variant C10 rules out).
add_contact_func_merge(args, book) ==
    LET Body(name, phone) ==
            TryIn(add_phone(IF find(book, name) # NoRecord
                            THEN find(book, name) ELSE Record(name), phone), book,
                  LAMBDA record :
                     InBook(Return(<<"Contact added.">>), add_record(book, record)))
    IN  TryIn(Unpack(args, 2), book, LAMBDA a : Body(a[1], a[2]))

\* add_contact before decoration (lines 127-134).
add_contact_func(args, book) ==
    LET Body(name, phone) ==
            TryIn(add_phone(Record(name), phone), book,
                  LAMBDA record :
                     InBook(Return(<<"Contact added.">>), add_record(book, record)))
    IN  TryIn(Unpack(args, 2), book, LAMBDA a : Body(a[1], a[2]))

add_contact(args, book) == input_error(add_contact_func(args, book))

\* record.phones[0]
FirstPhone(record) ==
    IF Len(record.phones) = 0 THEN Raise("IndexError", "list index out of range")
    ELSE Return(record.phones[1])

\* change_contact before decoration (lines 138-146). The record edited is the
\* object the book holds.
change_contact_func(args, book) ==
    LET Edit(record, phone) ==
            TryIn(FirstPhone(record), book,
                  LAMBDA first :
                     InBook(Return(<<"Contact updated.">>),
                            SetItem(book, record.name,
                                    edit_phone(record, first, phone).record)))
        Body(name, phone) ==
            IF find(book, name) # NoRecord
            THEN Edit(find(book, name), phone)
            ELSE InBook(Return(<<"Not found.">>), book)
    IN  TryIn(Unpack(args, 2), book, LAMBDA a : Body(a[1], a[2]))

change_contact(args, book) == input_error(change_contact_func(args, book))

\* show_phone before decoration (lines 150-157).
show_phone_func(args, book) ==
    LET Body(name) ==
            IF find(book, name) # NoRecord
            THEN InBook(Return(join(<<", ">>, find(book, name).phones)), book)
            ELSE InBook(Return(<<"Not found.">>), book)
    IN  TryIn(Unpack(args, 1), book, LAMBDA a : Body(a[1]))

show_phone(args, book) == input_error(show_phone_func(args, book))

\* show_all before decoration (lines 161-165).
show_all_func(book) ==
    IF Len(book) = 0 THEN InBook(Return(<<"No contacts stored.">>), book)
    ELSE InBook(Return(join(<<"\n">>,
            [i \in 1..Len(book) |->
                book[i].record.name \o <<": ">>
                    \o join(<<", ">>, book[i].record.phones)])), book)

show_all(book) == input_error(show_all_func(book))

\* add_birthday before decoration (lines 169-177).
add_birthday_func(args, book) ==
    LET Body(name, birthday) ==
            IF find(book, name) # NoRecord
            THEN TryIn(Record_add_birthday(find(book, name), birthday), book,
                       LAMBDA record :
                          InBook(Return(<<"Birthday added.">>),
                                 SetItem(book, record.name, record)))
            ELSE InBook(Return(<<"Contact not found.">>), book)
    IN  TryIn(Unpack(args, 2), book, LAMBDA a : Body(a[1], a[2]))

add_birthday(args, book) == input_error(add_birthday_func(args, book))

\* show_birthday before decoration (lines 181-188).
show_birthday_func(args, book) ==
    LET Body(name) ==
            IF find(book, name) # NoRecord /\ find(book, name).birthday # None
            THEN InBook(Return(str_datetime(find(book, name).birthday)), book)
            ELSE InBook(Return(<<"No birthday found for this contact.">>), book)
    IN  TryIn(Unpack(args, 1), book, LAMBDA a : Body(a[1]))

show_birthday(args, book) == input_error(show_birthday_func(args, book))

\* show_birthdays_next_week before decoration (lines 192-201).
show_birthdays_next_week_func(book, today) ==
    TryIn(get_birthdays_per_week(book, today), book,
          LAMBDA birthdays_next_week :
             IF Len(birthdays_next_week) = 0
             THEN InBook(Return(<<"No birthdays next week.">>), book)
             ELSE InBook(Return(join(<<"\n">>,
                    [i \in 1..Len(birthdays_next_week) |->
                        <<birthdays_next_week[i].day, ": ">>
                            \o join(<<", ">>, birthdays_next_week[i].names)])),
                         book))

show_birthdays_next_week(book, today) ==
    input_error(show_birthdays_next_week_func(book, today))

hello_command == <<"How can I help you?">>

\* ------------------------------------------------------------ command loop

\* The command words main() compares with, as characters.
CMD_close == <<"c", "l", "o", "s", "e">>

CMD_exit == <<"e", "x", "i", "t">>

CMD_hello == <<"h", "e", "l", "l", "o">>

CMD_add == <<"a", "d", "d">>

CMD_change == <<"c", "h", "a", "n", "g", "e">>

CMD_phone == <<"p", "h", "o", "n", "e">>

CMD_all == <<"a", "l", "l">>

CMD_add_birthday == <<"a", "d", "d", "-", "b", "i", "r", "t", "h", "d", "a", "y">>

CMD_show_birthday == <<"s", "h", "o", "w", "-", "b", "i", "r", "t", "h", "d", "a", "y">>

CMD_birthdays == <<"b", "i", "r", "t", "h", "d", "a", "y", "s">>

\* parse_input: `cmd, *args = user_input.split()` raises ValueError on a line
\* with no word; val is <<cmd>> \o args with cmd stripped and lowered.
Lowered(tokens) ==
    IF Len(tokens) < 1
    THEN Raise("ValueError", "not enough values to unpack")
    ELSE Return(<<lower(strip(Head(tokens)))>> \o Tail(tokens))

parse_input(user_input) == Lowered(split(user_input))

\* What one pass of the loop leaves behind: where main() is, the exception
\* that ended it (if one did), the string printed, the book, and main's
\* command and args.
After(where, outcome, data, command, args) ==
    [pc |-> where, exc |-> outcome.exc, out |-> outcome.val, book |-> data,
     command |-> command, args |-> args]

\* A handler's string is printed; an exception it let through ends main().
Shown(r, command, args) ==
    After(IF r.exc # "" THEN "crashed" ELSE "running", r, r.book, command, args)

\* Lines 223-246: the branch taken on command.
Dispatch(command, args, book, today) ==
    IF command \in {CMD_close, CMD_exit}
    THEN After("exited", Return(<<"Good bye!">>), book, command, args)
    ELSE IF command = CMD_hello
    THEN After("running", Return(hello_command), book, command, args)
    ELSE IF command = CMD_add
    THEN Shown(add_contact(args, book), command, args)
    ELSE IF command = CMD_change
    THEN Shown(change_contact(args, book), command, args)
    ELSE IF command = CMD_phone
    THEN Shown(show_phone(args, book), command, args)
    ELSE IF command = CMD_all
    THEN Shown(show_all(book), command, args)
    ELSE IF command = CMD_add_birthday
    THEN Shown(add_birthday(args, book), command, args)
    ELSE IF command = CMD_show_birthday
    THEN Shown(show_birthday(args, book), command, args)
    ELSE IF command = CMD_birthdays
    THEN Shown(show_birthdays_next_week(book, today), command, args)
    ELSE After("running",
               Return(<<"Not a valid command '">> \o command \o <<"'">>),
               book, command, args)

\* Line 222 and what follows it; a ValueError of parse_input ends main().
Parsed(parsed, book, today) ==
    IF parsed.exc # "" THEN After("crashed", parsed, book, <<>>, <<>>)
    ELSE Dispatch(Head(parsed.val), Tail(parsed.val), book, today)

\* One pass of `while True` (lines 219-246) on the line read, the clock
\* reading today.
main(user_input, book, today) == Parsed(parse_input(user_input), book, today)

\* ----------------------------------------------------------------- inputs

Alice == <<"a", "l", "i", "c", "e">>

Bob == <<"b", "o", "b">>

Names == {Alice, Bob}

Phone1 == <<"1", "2", "3", "4", "5", "6", "7", "8", "9", "0">>

Phone2 == <<"0", "9", "8", "7", "6", "5", "4", "3", "2", "1">>

\* Not a phone and not a date.
Short == <<"1", "2", "3", "4", "5">>

\* Ten characters, not all digits.
Letters == <<"1", "2", "3", "4", "5", "a", "b", "c", "d", "e">>

Wed0506 == <<"0", "5", ".", "0", "6", ".", "1", "9", "9", "0">>

\* The same date without the leading zeros.
Wed56 == <<"5", ".", "6", ".", "1", "9", "9", "0">>

Sat0806 == <<"0", "8", ".", "0", "6", ".", "1", "9", "9", "5">>

Mon1006 == <<"1", "0", ".", "0", "6", ".", "1", "9", "9", "9">>

Feb29 == <<"2", "9", ".", "0", "2", ".", "2", "0", "0", "0">>

\* No such day.
Feb31 == <<"3", "1", ".", "0", "2", ".", "2", "0", "0", "0">>

\* The year first.
IsoDate == <<"1", "9", "9", "0", "-", "0", "6", "-", "0", "5">>

\* The clock readings, with (birthday_this_year - end).days of 5 June,
\* 8 June and 10 June at each:
\*   Monday 2022-05-30 (not a leap year)   0 (a Sunday), 3, 5
\*   Monday 2024-05-27                     3, 6, 8
\*   Monday 2024-06-03                     -4, -1 (a Saturday), 1
\*   Thursday 2024-06-06 (the same week)   -4, -1, 1
\*   Monday 2026-06-01 (not a leap year)   -2, 1, 3
Todays ==
    {Date(2022, 5, 30), Date(2024, 5, 27), Date(2024, 6, 3), Date(2024, 6, 6),
     Date(2026, 6, 1)}

\* k further arguments.
Fill(k) == [i \in 1..k |-> Phone1]

\* The argument lists tried on a command that takes a name and a value: none,
\* the name alone, each name with each of `values`, one name with each of
\* `others`, and too many (up to MaxArgs).
TwoArgs(values, others) ==
    {<<>>} \cup {<<n>> : n \in Names}
           \cup {<<n, v>> : n \in Names, v \in values}
           \cup {<<Alice, v>> : v \in others}
           \cup {<<Alice, Phone1>> \o Fill(k) : k \in 1..(MaxArgs - 2)}

\* The argument lists tried on a command that takes a name.
OneArg == {<<>>} \cup {<<n>> : n \in Names}
                 \cup {<<Alice>> \o Fill(k) : k \in 1..(MaxArgs - 1)}

\* The typed line: the words with one blank between them.
Line(words) == join(<<" ">>, words)

Lines(commands, arglists) ==
    {Line(<<c>> \o a) : c \in commands, a \in arglists}

ExitLines == Lines({CMD_exit, CMD_close, <<"E", "X", "I", "T">>, <<"C", "l", "o", "s", "e">>}, {<<>>})

HelloLines == Lines({CMD_hello, <<"H", "e", "l", "l", "o">>}, {<<>>})

\* With one line typed in capitals and with blanks around the words.
AddLines ==
    Lines({CMD_add}, TwoArgs({Phone1, Phone2}, {Short, Letters}))
        \cup {<<" ", " ">> \o <<"A", "D", "D">> \o <<" ", "\t">> \o Bob
                \o <<" ">> \o Phone2 \o <<" ">>}

ChangeLines == Lines({CMD_change}, TwoArgs({Phone1, Phone2}, {Short}))

PhoneLines == Lines({CMD_phone}, OneArg)

AllLines == Lines({CMD_all}, {<<>>, <<Alice>>})

AddBirthdayLines ==
    Lines({CMD_add_birthday},
          TwoArgs({Sat0806, Mon1006},
                  {Wed0506, Feb29, Wed56, Feb31, IsoDate, Short}))

ShowBirthdayLines == Lines({CMD_show_birthday}, OneArg)

BirthdaysLines == Lines({CMD_birthdays}, {<<>>})

\* Words that are no command.
UnknownLines == Lines({<<"d", "e", "l", "e", "t", "e">>, <<"p", "h", "o", "n", "e", "s">>}, {<<Alice>>})

\* Lines with no word: empty, or blanks only.
BlankLines == {<<>>, <<" ">>, <<" ", "\t">>}

\* ------------------------------------------------------------------ state

VARIABLES
    book,        \* main's AddressBook: book.data
    pc,          \* "running" in the loop, "exited" after break, "crashed"
                 \* when an exception ended main()
    user_input,  \* the line last read
    command,     \* main's command of that line (<<>> when parsing raised)
    args,        \* main's args of that line
    out,         \* the string last printed
    exc,         \* the exception that ended main(), "" when none did
    today        \* the date get_birthdays_per_week read in the last pass,
                 \* None when the pass did not read the clock

vars == <<book, pc, user_input, command, args, out, exc, today>>

Init ==
    /\ book = <<>>
    /\ pc = "running"
    /\ user_input = <<>>
    /\ command = <<>>
    /\ args = <<>>
    /\ out = <<"Welcome to the assistant bot!">>
    /\ exc = ""
    /\ today = None

\* The state after a pass of the loop.
Leave(typed, now, r) ==
    /\ pc' = r.pc
    /\ book' = r.book
    /\ out' = r.out
    /\ exc' = r.exc
    /\ user_input' = typed
    /\ command' = r.command
    /\ args' = r.args
    /\ today' = now

\* Each action is one pass of `while True` on a line of its kind: the line
\* is read, parsed, dispatched and the result printed.
Exit ==
    \E typed \in ExitLines :
        /\ pc = "running"
        /\ Leave(typed, None, main(typed, book, None))

Hello ==
    \E typed \in HelloLines :
        /\ pc = "running"
        /\ Leave(typed, None, main(typed, book, None))

Add ==
    \E typed \in AddLines :
        /\ pc = "running"
        /\ Leave(typed, None, main(typed, book, None))

Change ==
    \E typed \in ChangeLines :
        /\ pc = "running"
        /\ Leave(typed, None, main(typed, book, None))

ShowPhone ==
    \E typed \in PhoneLines :
        /\ pc = "running"
        /\ Leave(typed, None, main(typed, book, None))

ShowAll ==
    \E typed \in AllLines :
        /\ pc = "running"
        /\ Leave(typed, None, main(typed, book, None))

AddBirthday ==
    \E typed \in AddBirthdayLines :
        /\ pc = "running"
        /\ Leave(typed, None, main(typed, book, None))

ShowBirthday ==
    \E typed \in ShowBirthdayLines :
        /\ pc = "running"
        /\ Leave(typed, None, main(typed, book, None))

\* The pass that reads datetime.today().
Birthdays ==
    \E typed \in BirthdaysLines : \E now \in Todays :
        /\ pc = "running"
        /\ Leave(typed, now, main(typed, book, now))

Unknown ==
    \E typed \in UnknownLines :
        /\ pc = "running"
        /\ Leave(typed, None, main(typed, book, None))

Blank ==
    \E typed \in BlankLines :
        /\ pc = "running"
        /\ Leave(typed, None, main(typed, book, None))

Next ==
    \/ Exit
    \/ Hello
    \/ Add
    \/ Change
    \/ ShowPhone
    \/ ShowAll
    \/ AddBirthday
    \/ ShowBirthday
    \/ Birthdays
    \/ Unknown
    \/ Blank

Spec == Init /\ [][Next]_vars

\* ------------------------------------------------------------- properties

\* The commands main() hands to a handler wrapped by input_error.
HandlerCommands ==
    {CMD_add, CMD_change, CMD_phone, CMD_all, CMD_add_birthday,
     CMD_show_birthday, CMD_birthdays}

TwoArgCommands == {CMD_add, CMD_change, CMD_add_birthday}

OneArgCommands == {CMD_phone, CMD_show_birthday}

NotFoundMsg == <<"Can't find the contact.">>

ValidationMsg == <<"Give the correct data, please">>

NoArgumentsMsg == <<"No arguments.">>

\* The strings with which a handler reports a failure.
FailureMessages ==
    {NotFoundMsg, ValidationMsg, NoArgumentsMsg, <<"Not found.">>,
     <<"Contact not found.">>}

\* C1: every handler is total: the pass that called a handler printed the
\* string the handler returned, and no exception left the handler, also not
\* from show_birthdays_next_week on a book with a contact without birthday.
C1_HandlersTotal ==
    command \in HandlerCommands => (exc = "" /\ pc = "running")

\* C2: every phone stored in the book is a string of exactly 10 digits.
C2_PhoneInvariant ==
    \A i \in 1..Len(book) :
        \A k \in 1..Len(book[i].record.phones) :
            /\ Len(book[i].record.phones[k]) = 10
            /\ isdigit(book[i].record.phones[k])

\* The argument count is not the one the handler of `command` unpacks.
WrongCount ==
    \/ command \in TwoArgCommands /\ Len(args) # 2
    \/ command \in OneArgCommands /\ Len(args) # 1

\* C3: a handler called with the wrong number of arguments answers
\* "No arguments.", and "Give the correct data, please" is the answer to a
\* phone or a birthday of the wrong format only.
C3_WrongCountNoArguments ==
    /\ WrongCount => out = NoArgumentsMsg
    /\ (command \in HandlerCommands /\ out = ValidationMsg) => ~WrongCount

\* C4: a pass whose handler answered with a failure message leaves the book
\* as it was: the same names in the same order, each with the same phones and
\* the same birthday.
C4_StateUnchangedOnFailure ==
    [][(command' \in HandlerCommands /\ out' \in FailureMessages)
          => book' = book]_vars

\* C4's case: add-birthday with a date that does not parse, on a contact that
\* has a birthday, which it keeps.
C4_Witness ==
    /\ command = CMD_add_birthday
    /\ Len(args) = 2
    /\ out = ValidationMsg
    /\ find(book, args[1]) # NoRecord
    /\ find(book, args[1]).birthday # None

\* C9: the loop ends only by `close` or `exit`: whatever line is read, main()
\* is still in the loop unless that line's command word was one of the two.
C9_LoopEndsOnlyOnExit ==
    pc # "running" => (pc = "exited" /\ command \in {CMD_close, CMD_exit})

\* The weekly-birthday query ran in the last pass and returned its mapping.
QueryReturned ==
    /\ command = CMD_birthdays
    /\ get_birthdays_per_week(book, today).exc = ""

\* The ordinal of the Monday on or before t, and of the Sunday after it.
WeekStart(t) == toordinal(t) - weekday(t)

WeekEnd(t) == WeekStart(t) + 6

\* The ordinal of birthday b in the year of t.
Projected(b, t) == toordinal(Date(t.year, b.month, b.day))

\* name is listed in the mapping / under the key day.
Listed(mapping, name) ==
    \E i \in 1..Len(mapping) :
        \E k \in 1..Len(mapping[i].names) : mapping[i].names[k] = name

ListedUnder(mapping, day, name) ==
    \E i \in 1..Len(mapping) :
        /\ mapping[i].day = day
        /\ \E k \in 1..Len(mapping[i].names) : mapping[i].names[k] = name

\* The contacts listed in `mapping` are those whose projected birthday is
\* one of the days first..last, counted from the Sunday of today's week.
ListsDays(mapping, first, last) ==
    \A i \in 1..Len(book) :
        Listed(mapping, book[i].key)
            <=> (Projected(book[i].record.birthday, today) - WeekEnd(today))
                    \in first..last

\* On a Monday: the contacts whose projected birthday is `days` after today
\* are listed under `day`, or not listed when day is "".
OnMonday(mapping, days, day) ==
    weekday(today) = 0 =>
        \A i \in 1..Len(book) :
            Projected(book[i].record.birthday, today) = toordinal(today) + days
                => IF day = "" THEN ~Listed(mapping, book[i].key)
                   ELSE ListedUnder(mapping, day, book[i].key)

\* The window week_start..week_end and its Monday instance.
CurrentWeek(mapping) ==
    /\ ListsDays(mapping, -6, 0)
    /\ OnMonday(mapping, 2, "Wednesday")
    /\ OnMonday(mapping, 5, "Monday")
    /\ OnMonday(mapping, 7, "")

\* C5 as claimed: a contact is in the result of the weekly-birthday query iff
\* its birthday projected onto the current year lies in week_start..week_end;
\* on a Monday, today+2 is under "Wednesday", today+5 under "Monday" and
\* today+7 is left out.
C5_CurrentWeekWindow ==
    QueryReturned => CurrentWeek(get_birthdays_per_week(book, today).val)

\* The window week_end - 1 .. week_end + 5 and its Monday instance.
SaturdayToFriday(mapping) ==
    /\ ListsDays(mapping, -1, 5)
    /\ OnMonday(mapping, 2, "")
    /\ OnMonday(mapping, 5, "Monday")
    /\ OnMonday(mapping, 7, "Monday")

\* C5 as the code has it: a contact is in the result iff its projected
\* birthday lies in week_end - 1 .. week_end + 5, the Saturday of the current
\* week to the Friday of the next; on a Monday, today+2 is left out, today+5
\* (Saturday) and today+7 (the next Monday) are under "Monday".
C5_NextWeekWindow ==
    QueryReturned => SaturdayToFriday(get_birthdays_per_week(book, today).val)

\* C5's case: the query on Monday 2024-06-03 with Wednesday 5 June (today+2)
\* and Monday 10 June (today+7) in the book.
C5_Witness ==
    /\ QueryReturned
    /\ today = Date(2024, 6, 3)
    /\ \E i \in 1..Len(book) :
          Projected(book[i].record.birthday, today) = toordinal(today) + 2
    /\ \E i \in 1..Len(book) :
          Projected(book[i].record.birthday, today) = toordinal(today) + 7

\* The key a projected birthday belongs under: its weekday name, "Monday"
\* for the two days of the weekend.
ExpectedKey(ordinal) ==
    IF (ordinal + 6) % 7 \in {5, 6} THEN "Monday" ELSE DayNames[((ordinal + 6) % 7) + 1]

\* How often name is listed in the mapping.
Occurrences(mapping, name) ==
    Cardinality({ik \in (1..Len(mapping)) \X (1..Len(book)) :
                    /\ ik[2] <= Len(mapping[ik[1]].names)
                    /\ mapping[ik[1]].names[ik[2]] = name})

RolledForward(mapping) ==
    /\ \A i \in 1..Len(mapping) :
          /\ mapping[i].day \notin {"Saturday", "Sunday"}
          /\ Len(mapping[i].names) \in 1..Len(book)
          /\ \A j \in 1..Len(mapping) : mapping[i].day = mapping[j].day => i = j
          /\ \A k \in 1..Len(mapping[i].names) :
                /\ mapping[i].names[k] \in Keys(book)
                /\ \A l \in 1..(k - 1) :
                      IndexOf(book, mapping[i].names[l])
                          < IndexOf(book, mapping[i].names[k])
    /\ \A i \in 1..Len(book) :
          /\ Occurrences(mapping, book[i].key) <= 1
          /\ Listed(mapping, book[i].key)
                => ListedUnder(mapping,
                       ExpectedKey(Projected(book[i].record.birthday, today)),
                       book[i].key)

\* C6: the mapping the query returns has no key "Saturday" or "Sunday"; a
\* listed contact is listed once, under "Monday" when its projected birthday
\* is a Saturday or a Sunday and under that day's name otherwise; the names
\* under a key are in the book's order; no key has an empty list.
C6_WeekendRollForward ==
    QueryReturned => RolledForward(get_birthdays_per_week(book, today).val)

\* C6's case: two contacts under one key, one of them moved there from the
\* weekend.
C6_Witness ==
    /\ QueryReturned
    /\ \E i \in 1..Len(get_birthdays_per_week(book, today).val) :
          Len(get_birthdays_per_week(book, today).val[i].names) = 2
    /\ \E i \in 1..Len(book) :
          /\ weekday(Date(today.year, book[i].record.birthday.month,
                          book[i].record.birthday.day)) \in {5, 6}
          /\ Listed(get_birthdays_per_week(book, today).val, book[i].key)

\* A string of exactly 10 digits.
ValidPhone(p) == Len(p) = 10 /\ \A i \in 1..Len(p) : p[i] \in Digits

\* C7: `add n p` with a valid phone answers "Contact added." and `phone n`
\* right after it answers p; `change n q` on a contact of the book answers
\* "Contact updated." and `phone n` right after it answers q; for a name not
\* in the book `phone` and `change` answer "Not found." and `change` leaves
\* the book as it was.
C7_AddChangePhoneSequence ==
    [][/\ (command' = CMD_add /\ Len(args') = 2 /\ ValidPhone(args'[2]))
            => out' = <<"Contact added.">>
       /\ (/\ command = CMD_add /\ out = <<"Contact added.">>
           /\ command' = CMD_phone /\ args' = <<args[1]>>)
            => out' = args[2]
       /\ (/\ command' = CMD_change /\ Len(args') = 2 /\ ValidPhone(args'[2])
           /\ args'[1] \in Keys(book))
            => out' = <<"Contact updated.">>
       /\ (/\ command = CMD_change /\ out = <<"Contact updated.">>
           /\ ValidPhone(args[2])
           /\ command' = CMD_phone /\ args' = <<args[1]>>)
            => out' = args[2]
       /\ (command' = CMD_phone /\ Len(args') = 1 /\ args'[1] \notin Keys(book))
            => out' = <<"Not found.">>
       /\ (/\ command' = CMD_change /\ Len(args') = 2 /\ ValidPhone(args'[2])
           /\ args'[1] \notin Keys(book))
            => (out' = <<"Not found.">> /\ book' = book)
      ]_vars

\* C7's case: `change n q` with a valid q has just answered "Contact
\* updated."; q is the phone the book holds for n and the one `phone n` shows.
C7_Witness ==
    /\ command = CMD_change
    /\ Len(args) = 2
    /\ ValidPhone(args[2])
    /\ out = <<"Contact updated.">>
    /\ find(book, args[1]).phones = <<args[2]>>
    /\ show_phone(<<args[1]>>, book).val = args[2]

\* Records to hand to add_record: with and without birthday, with one phone
\* and with two.
SampleRecords ==
    {[name |-> n, birthday |-> b, phones |-> ps] :
        n \in Names, b \in {None, Date(1990, 6, 5)},
        ps \in {<<Phone1>>, <<Phone2, Phone1>>}}

\* `after` is `before` with R2 as the one entry of its name and every entry
\* of another name as it was.
Overwritten(before, after, R2) ==
    /\ Cardinality({i \in 1..Len(after) : after[i].key = R2.name}) = 1
    /\ find(after, R2.name) = R2
    /\ Keys(after) = Keys(before) \cup {R2.name}
    /\ \A i \in 1..Len(before) :
          before[i].key # R2.name
              => \E j \in 1..Len(after) : after[j] = before[i]
    /\ \A j \in 1..Len(after) :
          after[j].key # R2.name
              => \E i \in 1..Len(before) : after[j] = before[i]

\* C8: in every book the program reaches each key is the name of its record
\* and stands once; add_record(R1) and then add_record(R2) of the same name
\* leave one entry of that name, find(name) is R2 with nothing of R1, and
\* the other entries are as they were.
C8_OverwriteByKey ==
    /\ \A i \in 1..Len(book) :
          /\ book[i].key = book[i].record.name
          /\ \A j \in 1..Len(book) : book[i].key = book[j].key => i = j
    /\ \A R1 \in SampleRecords :
          \A R2 \in {R \in SampleRecords : R.name = R1.name} :
              Overwritten(book, add_record(add_record(book, R1), R2), R2)

\* C8's case: `add` has stored a record under a name that is not the last
\* key of the book: the name was there before, and its record was replaced.
C8_Witness ==
    /\ command = CMD_add
    /\ out = <<"Contact added.">>
    /\ Len(book) = 2
    /\ book[1].key = args[1]
    /\ book[1].record = [name |-> args[1], birthday |-> None, phones |-> <<args[2]>>]

\* C10: every record of the book holds exactly one phone: `add` stores a
\* new record with the one phone and no birthday under the name, whatever
\* was there, and `change` with two arguments on a contact of the book
\* raises nothing, answers "Contact updated." (not "No arguments.") and
\* rewrites the one phone.
C10_OnePhonePerRecord ==
    [][/\ \A i \in 1..Len(book') : Len(book'[i].record.phones) = 1
       /\ (command' = CMD_add /\ out' = <<"Contact added.">>)
            => find(book', args'[1])
                  = [name |-> args'[1], birthday |-> None, phones |-> <<args'[2]>>]
       /\ (command' = CMD_change /\ Len(args') = 2 /\ args'[1] \in Keys(book))
            => /\ exc' = ""
               /\ out' = <<"Contact updated.">>
               /\ out' # NoArgumentsMsg
               /\ find(book', args'[1]).phones = <<args'[2]>>
               /\ find(book', args'[1]).birthday = find(book, args'[1]).birthday
      ]_vars

\* C10's case: `change` on a contact with a birthday, in a book of two.
C10_Witness ==
    /\ command = CMD_change
    /\ Len(args) = 2
    /\ out = <<"Contact updated.">>
    /\ Len(book) = 2
    /\ Len(find(book, args[1]).phones) = 1
    /\ find(book, args[1]).birthday # None

====
